---- MODULE Spec2Model ----
(***************************************************************************)
(* Model of src/my_methods.py: approx_relative_error, bisection_method,    *)
(* false_position_method and secant_method.                                *)
(*                                                                         *)
(* Python floats are modelled by a small binary floating-point format with *)
(* the same structure as IEEE-754 doubles: a fixed number of significand   *)
(* bits, gradual underflow down to a smallest subnormal, round to nearest  *)
(* with ties to even after every operation, overflow to infinity, and NaN  *)
(* for inf-inf, 0*inf and inf/inf.  A finite value is the integer number   *)
(* of smallest-subnormal units it holds; 1.0 is One units.                 *)
(***************************************************************************)
EXTENDS Integers, Sequences, FiniteSets, TLC

\* ------------------------------------------------------------------------
\* Bounds of the floating-point format and of the inputs
\* ------------------------------------------------------------------------
MantBits == 4
FracBits == 6
MaxShift == 8
MaxIter == 9

RECURSIVE Pow2(_)
Pow2(n) == IF n <= 0 THEN 1 ELSE 2 * Pow2(n - 1)

One == Pow2(FracBits)
\* The smallest positive float (one unit).
Tiny == Pow2(0)
MaxFinite == (Pow2(MantBits) - 1) * Pow2(MaxShift)

\* float('inf'), -float('inf') and NaN are integers outside the finite range,
\* placed so that the integer order is the float order on non-NaN values.
Inf == 4 * MaxFinite
NaN == 16 * MaxFinite

IsFinite(a) == a # NaN /\ a # Inf /\ a # -Inf

AbsInt(n) == IF n < 0 THEN -n ELSE n
SignInt(n) == IF n < 0 THEN -1 ELSE 1

\* Number of low-order bits that do not fit the significand of a value
\* whose integer part (in units) is x.
RECURSIVE Shift(_)
Shift(x) == IF x < Pow2(MantBits) THEN 0 ELSE 1 + Shift(x \div 2)

\* n/d (n >= 0, d > 0) rounded to the nearest integer, ties to even.
RoundHalfEven(n, d) ==
    LET fl == n \div d
        r == n % d
    IN  IF 2 * r < d THEN fl
        ELSE IF 2 * r > d THEN fl + 1
        ELSE IF fl % 2 = 0 THEN fl ELSE fl + 1

\* The float nearest to the rational n/d units (d > 0).
Round(n, d) ==
    LET N == AbsInt(n)
        q == Pow2(Shift(N \div d))
        m == RoundHalfEven(N, d * q) * q
    IN  IF m > MaxFinite THEN SignInt(n) * Inf ELSE SignInt(n) * m

\* ------------------------------------------------------------------------
\* Python float operators
\* ------------------------------------------------------------------------
Neg(a) == IF a = NaN THEN NaN ELSE -a

Add(a, b) ==
    IF a = NaN \/ b = NaN THEN NaN
    ELSE IF ~IsFinite(a) THEN (IF b = -a THEN NaN ELSE a)
    ELSE IF ~IsFinite(b) THEN b
    ELSE Round(a + b, 1)

Sub(a, b) == Add(a, Neg(b))

Mul(a, b) ==
    IF a = NaN \/ b = NaN THEN NaN
    ELSE IF ~IsFinite(a) \/ ~IsFinite(b)
         THEN (IF a = 0 \/ b = 0 THEN NaN ELSE SignInt(a) * SignInt(b) * Inf)
    ELSE Round(a * b, One)

\* a / b for b # 0 (b = 0 raises ZeroDivisionError, decided by the caller).
Div(a, b) ==
    IF a = NaN \/ b = NaN THEN NaN
    ELSE IF ~IsFinite(a) THEN (IF ~IsFinite(b) THEN NaN ELSE SignInt(a) * SignInt(b) * Inf)
    ELSE IF ~IsFinite(b) THEN 0
    ELSE Round(SignInt(b) * a * One, AbsInt(b))

Abs(a) == IF a = NaN THEN NaN ELSE AbsInt(a)

Lt(a, b) == a # NaN /\ b # NaN /\ a < b
Gt(a, b) == a # NaN /\ b # NaN /\ a > b
Eq(a, b) == a # NaN /\ b # NaN /\ a = b

\* ------------------------------------------------------------------------
\* Inputs of a call
\* ------------------------------------------------------------------------
Methods == {"bisection_method", "false_position_method", "secant_method"}

\* Objective callables handed to the solvers (input_func), by name:
\*   "x"      lambda x: x              "negx"   lambda x: -x
\*   "sq2"    lambda x: x*x - 2        "sq1"    lambda x: x*x - 1
\*   "cubic"  lambda x: x*x*x - x      "tiny"   lambda x: 2*x + u
\* where u is the smallest positive float.
Objectives == {"x", "negx", "sq2", "sq1", "cubic", "tiny"}

Call(f, x) ==
    CASE f = "x" -> x
      [] f = "negx" -> Neg(x)
      [] f = "sq2" -> Sub(Mul(x, x), 2 * One)
      [] f = "sq1" -> Sub(Mul(x, x), One)
      [] f = "cubic" -> Sub(Mul(Mul(x, x), x), x)
      [] f = "tiny" -> Add(Mul(2 * One, x), Tiny)

\* The largest finite float, the start of its binade, and a float between them.
Huge == MaxFinite
HalfHuge == Pow2(MantBits - 1) * Pow2(MaxShift)
MidHuge == 3 * Pow2(MantBits - 2) * Pow2(MaxShift)

Points == {-2 * One, -One, 0, One, 2 * One, 3 * One, HalfHuge, Huge, -Tiny, 6 * Tiny}
Targets == {0, One, MidHuge}
Tolerances == {Tiny, One \div 4, Inf}
Budgets == {1, 3, MaxIter}

Unset == 32 * MaxFinite
NoPrior == [method |-> "none", pc |-> "none", result |-> Unset, path |-> "none"]

VARIABLES
    method,             \* which solver is running
    input_func, y,      \* objective and right-hand side
    x_lower, x_upper,   \* the two numeric arguments (x_0, x_1 of secant_method)
    max_error, max_iterations,
    x_a, x_b, x_p, x_c, \* locals of the bracketing solvers
    x_0, x_1,           \* locals of secant_method
    current_iteration,  \* index of the loop iteration about to run
    pc,                 \* "start", "loop" or a terminal outcome
    result,             \* the returned value
    path,               \* "exact" or "tolerance" return path
    prior               \* outcome of the call made before this one, if any

vars == <<method, input_func, y, x_lower, x_upper, max_error, max_iterations,
          x_a, x_b, x_p, x_c, x_0, x_1, current_iteration, pc, result, path, prior>>

inputs == <<input_func, y, max_error, max_iterations>>

Terminal == {"returned", "invalid_bracket", "division_fault", "max_iterations"}

\* solve_func = lambda x: input_func(x) - y
solve_func(x) == Sub(Call(input_func, x), y)

\* Mutant: the zero guard returns 0 instead of infinity.
approx_relative_error_ZeroGuard(previous_estimate, current_estimate) ==
    IF Eq(current_estimate, 0) THEN 0
    ELSE Abs(Div(Sub(current_estimate, previous_estimate), current_estimate))

\* approx_relative_error(previous_estimate, current_estimate)
approx_relative_error(previous_estimate, current_estimate) ==
    IF Eq(current_estimate, 0) THEN Inf
    ELSE Abs(Div(Sub(current_estimate, previous_estimate), current_estimate))

\* min([a, b]) and max([a, b]) of Python on floats
Min(a, b) == IF Lt(b, a) THEN b ELSE a
Max(a, b) == IF Gt(b, a) THEN b ELSE a

Init ==
    /\ method \in Methods
    /\ input_func \in Objectives
    /\ y \in Targets
    /\ x_lower \in Points
    /\ x_upper \in Points
    /\ max_error \in Tolerances
    /\ max_iterations \in Budgets
    /\ x_a = Unset /\ x_b = Unset /\ x_p = Unset /\ x_c = Unset
    /\ x_0 = Unset /\ x_1 = Unset
    /\ current_iteration = 0
    /\ pc = "start"
    /\ result = Unset
    /\ path = "none"
    /\ prior = NoPrior

\* ------------------------------------------------------------------------
\* bisection_method and false_position_method
\* ------------------------------------------------------------------------
\* Mutant: the entry check also rejects a product of exactly 0.
BracketRejected_NonStrict(a, b) == ~Lt(Mul(solve_func(a), solve_func(b)), 0)

\* The entry check of both bracketing solvers.
BracketRejected(a, b) == Gt(Mul(solve_func(a), solve_func(b)), 0)

\* Lines 81-87 / 159-165: normalise the bounds, check the bracket.
BracketEntry(m) ==
    /\ method = m
    /\ pc = "start"
    /\ x_a' = Min(x_lower, x_upper)
    /\ x_b' = Max(x_lower, x_upper)
    /\ pc' = IF BracketRejected(x_a', x_b') THEN "invalid_bracket" ELSE "loop"
    /\ UNCHANGED <<method, inputs, x_lower, x_upper, x_p, x_c, x_0, x_1,
                   current_iteration, result, path, prior>>

\* Mutant: the tolerance test compares the absolute step with max_error.
BracketBody_AbsoluteError(c) ==
    /\ x_p' = IF current_iteration = 0 THEN x_a ELSE x_c
    /\ x_c' = c
    /\ IF Eq(solve_func(c), 0)
       THEN /\ pc' = "returned" /\ result' = c /\ path' = "exact"
            /\ UNCHANGED <<x_a, x_b, current_iteration>>
       ELSE /\ IF Gt(solve_func(x_a), 0) = Gt(solve_func(c), 0)
               THEN x_a' = c /\ x_b' = x_b
               ELSE x_b' = c /\ x_a' = x_a
            /\ IF Lt(Abs(Sub(c, x_p')), max_error)
               THEN /\ pc' = "returned" /\ result' = c /\ path' = "tolerance"
                    /\ UNCHANGED current_iteration
               ELSE /\ pc' = "loop" /\ current_iteration' = current_iteration + 1
                    /\ UNCHANGED <<result, path>>
    /\ UNCHANGED <<method, inputs, x_lower, x_upper, x_0, x_1, prior>>

\* Mutant: the exact-match path returns the previous estimate.
BracketBody_ReturnsPrevious(c) ==
    /\ x_p' = IF current_iteration = 0 THEN x_a ELSE x_c
    /\ x_c' = c
    /\ IF Eq(solve_func(c), 0)
       THEN /\ pc' = "returned" /\ result' = x_p' /\ path' = "exact"
            /\ UNCHANGED <<x_a, x_b, current_iteration>>
       ELSE /\ IF Gt(solve_func(x_a), 0) = Gt(solve_func(c), 0)
               THEN x_a' = c /\ x_b' = x_b
               ELSE x_b' = c /\ x_a' = x_a
            /\ IF Lt(approx_relative_error(x_p', c), max_error)
               THEN /\ pc' = "returned" /\ result' = c /\ path' = "tolerance"
                    /\ UNCHANGED current_iteration
               ELSE /\ pc' = "loop" /\ current_iteration' = current_iteration + 1
                    /\ UNCHANGED <<result, path>>
    /\ UNCHANGED <<method, inputs, x_lower, x_upper, x_0, x_1, prior>>

\* The body of one loop iteration once x_c has been computed as c.
BracketBody(c) ==
    /\ x_p' = IF current_iteration = 0 THEN x_a ELSE x_c
    /\ x_c' = c
    /\ IF Eq(solve_func(c), 0)
       THEN /\ pc' = "returned" /\ result' = c /\ path' = "exact"
            /\ UNCHANGED <<x_a, x_b, current_iteration>>
       ELSE /\ IF Gt(solve_func(x_a), 0) = Gt(solve_func(c), 0)
               THEN x_a' = c /\ x_b' = x_b
               ELSE x_b' = c /\ x_a' = x_a
            /\ IF Lt(approx_relative_error(x_p', c), max_error)
               THEN /\ pc' = "returned" /\ result' = c /\ path' = "tolerance"
                    /\ UNCHANGED current_iteration
               ELSE /\ pc' = "loop" /\ current_iteration' = current_iteration + 1
                    /\ UNCHANGED <<result, path>>
    /\ UNCHANGED <<method, inputs, x_lower, x_upper, x_0, x_1, prior>>

\* Mutant: the sum of the bounds is not halved.
Midpoint_NoHalving(a, b) == Add(a, b)

Midpoint(a, b) == Div(Add(a, b), 2 * One)

BisectionIterate ==
    /\ method = "bisection_method"
    /\ pc = "loop"
    /\ current_iteration < max_iterations
    /\ BracketBody(Midpoint(x_a, x_b))

FalsePositionDenominator == Sub(solve_func(x_a), solve_func(x_b))

FalsePositionEstimate ==
    Sub(x_b, Div(Mul(solve_func(x_b), Sub(x_a, x_b)), FalsePositionDenominator))

FalsePositionIterate ==
    /\ method = "false_position_method"
    /\ pc = "loop"
    /\ current_iteration < max_iterations
    /\ IF FalsePositionDenominator = 0
       THEN /\ pc' = "division_fault"
            /\ x_p' = IF current_iteration = 0 THEN x_a ELSE x_c
            /\ UNCHANGED <<method, inputs, x_lower, x_upper, x_a, x_b, x_c, x_0, x_1,
                           current_iteration, result, path, prior>>
       ELSE BracketBody(FalsePositionEstimate)

\* Mutant: when the loop runs out the last estimate is returned.
Exhausted_ReturnsLast ==
    /\ pc = "loop"
    /\ current_iteration = max_iterations
    /\ pc' = "returned"
    /\ result' = IF method = "secant_method" THEN x_1 ELSE x_c
    /\ path' = "tolerance"
    /\ UNCHANGED <<method, inputs, x_lower, x_upper, x_a, x_b, x_p, x_c, x_0, x_1,
                   current_iteration, prior>>

\* Lines 115-117 / 193-195 / 257-259: the loop ran out.
Exhausted ==
    /\ pc = "loop"
    /\ current_iteration = max_iterations
    /\ pc' = "max_iterations"
    /\ UNCHANGED <<method, inputs, x_lower, x_upper, x_a, x_b, x_p, x_c, x_0, x_1,
                   current_iteration, result, path, prior>>

\* ------------------------------------------------------------------------
\* secant_method
\* ------------------------------------------------------------------------
SecantEntry ==
    /\ method = "secant_method"
    /\ pc = "start"
    /\ x_0' = x_lower
    /\ x_1' = x_upper
    /\ pc' = "loop"
    /\ UNCHANGED <<method, inputs, x_lower, x_upper, x_a, x_b, x_p, x_c,
                   current_iteration, result, path, prior>>

SecantDenominator == Sub(solve_func(x_0), solve_func(x_1))

SecantEstimate ==
    Sub(x_1, Div(Mul(solve_func(x_1), Sub(x_0, x_1)), SecantDenominator))

\* Mutant: the exact-root test looks at the newer point x_1.
SecantIterate_ExactOnNewer ==
    /\ method = "secant_method"
    /\ pc = "loop"
    /\ current_iteration < max_iterations
    /\ IF Eq(solve_func(x_1), 0)
       THEN /\ pc' = "returned" /\ result' = x_1 /\ path' = "exact"
            /\ UNCHANGED <<x_0, x_1, current_iteration>>
       ELSE IF Lt(approx_relative_error(x_0, x_1), max_error)
       THEN /\ pc' = "returned" /\ result' = x_1 /\ path' = "tolerance"
            /\ UNCHANGED <<x_0, x_1, current_iteration>>
       ELSE IF SecantDenominator = 0
       THEN /\ pc' = "division_fault"
            /\ UNCHANGED <<x_0, x_1, current_iteration, result, path>>
       ELSE /\ x_0' = x_1
            /\ x_1' = SecantEstimate
            /\ pc' = "loop"
            /\ current_iteration' = current_iteration + 1
            /\ UNCHANGED <<result, path>>
    /\ UNCHANGED <<method, inputs, x_lower, x_upper, x_a, x_b, x_p, x_c, prior>>

\* Mutant: the secant update is computed before the tolerance test.
SecantIterate_UpdateFirst ==
    /\ method = "secant_method"
    /\ pc = "loop"
    /\ current_iteration < max_iterations
    /\ IF Eq(solve_func(x_0), 0)
       THEN /\ pc' = "returned" /\ result' = x_0 /\ path' = "exact"
            /\ UNCHANGED <<x_0, x_1, current_iteration>>
       ELSE IF SecantDenominator = 0
       THEN /\ pc' = "division_fault"
            /\ UNCHANGED <<x_0, x_1, current_iteration, result, path>>
       ELSE IF Lt(approx_relative_error(x_0, x_1), max_error)
       THEN /\ pc' = "returned" /\ result' = x_1 /\ path' = "tolerance"
            /\ UNCHANGED <<x_0, x_1, current_iteration>>
       ELSE /\ x_0' = x_1
            /\ x_1' = SecantEstimate
            /\ pc' = "loop"
            /\ current_iteration' = current_iteration + 1
            /\ UNCHANGED <<result, path>>
    /\ UNCHANGED <<method, inputs, x_lower, x_upper, x_a, x_b, x_p, x_c, prior>>

SecantIterate ==
    /\ method = "secant_method"
    /\ pc = "loop"
    /\ current_iteration < max_iterations
    /\ IF Eq(solve_func(x_0), 0)
       THEN /\ pc' = "returned" /\ result' = x_0 /\ path' = "exact"
            /\ UNCHANGED <<x_0, x_1, current_iteration>>
       ELSE IF Lt(approx_relative_error(x_0, x_1), max_error)
       THEN /\ pc' = "returned" /\ result' = x_1 /\ path' = "tolerance"
            /\ UNCHANGED <<x_0, x_1, current_iteration>>
       ELSE IF SecantDenominator = 0
       THEN /\ pc' = "division_fault"
            /\ UNCHANGED <<x_0, x_1, current_iteration, result, path>>
       ELSE /\ x_0' = x_1
            /\ x_1' = SecantEstimate
            /\ pc' = "loop"
            /\ current_iteration' = current_iteration + 1
            /\ UNCHANGED <<result, path>>
    /\ UNCHANGED <<method, inputs, x_lower, x_upper, x_a, x_b, x_p, x_c, prior>>

\* ------------------------------------------------------------------------
\* Follow-up calls made by a caller with the outcome of a finished call
\* ------------------------------------------------------------------------
Outcome == [method |-> method, pc |-> pc, result |-> result, path |-> path]

\* secant_method(f, r, r, y, max_error) with r the value just returned.
SecantReinvoke ==
    /\ method = "secant_method"
    /\ pc = "returned"
    /\ prior = NoPrior
    /\ prior' = Outcome
    /\ x_lower' = result /\ x_upper' = result
    /\ x_0' = Unset /\ x_1' = Unset
    /\ current_iteration' = 0
    /\ pc' = "start"
    /\ result' = Unset
    /\ path' = "none"
    /\ UNCHANGED <<method, inputs, x_a, x_b, x_p, x_c>>

\* false_position_method called with the arguments bisection_method just had.
FalsePositionSameArguments ==
    /\ method = "bisection_method"
    /\ pc \in Terminal
    /\ prior = NoPrior
    /\ prior' = Outcome
    /\ method' = "false_position_method"
    /\ x_a' = Unset /\ x_b' = Unset /\ x_p' = Unset /\ x_c' = Unset
    /\ current_iteration' = 0
    /\ pc' = "start"
    /\ result' = Unset
    /\ path' = "none"
    /\ UNCHANGED <<inputs, x_lower, x_upper, x_0, x_1>>

Next ==
    \/ BracketEntry("bisection_method")
    \/ BracketEntry("false_position_method")
    \/ BisectionIterate
    \/ FalsePositionIterate
    \/ SecantEntry
    \/ SecantIterate
    \/ Exhausted
    \/ SecantReinvoke
    \/ FalsePositionSameArguments

Spec == Init /\ [][Next]_vars

\* ------------------------------------------------------------------------
\* Properties
\* ------------------------------------------------------------------------
Bracketing == method \in {"bisection_method", "false_position_method"}
Entered == pc # "start" /\ pc # "invalid_bracket"
Lower == IF x_lower <= x_upper THEN x_lower ELSE x_upper
Upper == IF x_lower <= x_upper THEN x_upper ELSE x_lower
StrictBracket ==
    \/ Gt(solve_func(Lower), 0) /\ Lt(solve_func(Upper), 0)
    \/ Lt(solve_func(Lower), 0) /\ Gt(solve_func(Upper), 0)

\* C1: in bisection_method and false_position_method, once the entry check
\* has passed, solve(x_a)*solve(x_b) > 0 never becomes true.
C1_BracketPreserved == (Bracketing /\ Entered) => ~BracketRejected(x_a, x_b)

\* The next iteration of bisection_method would leave x_a, x_b and x_c as
\* they are and would not return: every later iteration does the same.
BisectionStuck ==
    LET c == Midpoint(x_a, x_b)
    IN  /\ current_iteration >= 1
        /\ c = x_c
        /\ ~Eq(solve_func(c), 0)
        /\ IF Gt(solve_func(x_a), 0) = Gt(solve_func(c), 0) THEN x_a = c ELSE x_b = c
        /\ ~Lt(approx_relative_error(x_c, c), max_error)

\* C2: bisection_method on an interval whose ends have strictly opposite
\* sign returns once max_iterations is large enough: a call that ended in the
\* max-iterations error was still moving, it was not in a state that repeats
\* for every larger budget.
C2_BisectionConverges ==
    (method = "bisection_method" /\ StrictBracket /\ pc = "max_iterations")
        => ~BisectionStuck

SecantCall == method = "secant_method" /\ pc \in Terminal
EqualValues == Eq(Call(input_func, x_lower), Call(input_func, x_upper))

FiniteValues ==
    IsFinite(Call(input_func, x_lower)) /\ IsFinite(Call(input_func, x_upper))

C4_InvalidBracketIff ==
    (Bracketing /\ pc # "start") =>
        /\ (pc = "invalid_bracket") <=>
              Gt(Mul(solve_func(Lower), solve_func(Upper)), 0)
        /\ pc = "invalid_bracket" =>
              /\ x_c = Unset /\ current_iteration = 0
              /\ x_a = Lower /\ x_b = Upper

C4_Witness ==
    /\ Bracketing /\ pc = "invalid_bracket"
    /\ x_lower > x_upper

LastError ==
    IF Bracketing THEN approx_relative_error(x_p, x_c)
    ELSE approx_relative_error(x_0, x_1)

\* C6: whenever a call returns, approx_relative_error of the last two
\* iterates is < max_error, whichever return path is taken.
C6_ReturnWithinTolerance == pc = "returned" => Lt(LastError, max_error)

\* C6 (amended): whenever a call returns through its tolerance test,
\* approx_relative_error of the last two iterates is < max_error and the
\* returned value is the later of the two.
C6_ToleranceReturnWithinTolerance ==
    (pc = "returned" /\ path = "tolerance") =>
        /\ Lt(LastError, max_error)
        /\ result = IF Bracketing THEN x_c ELSE x_1

C6_Witness ==
    /\ pc = "returned" /\ path = "tolerance"
    /\ Bracketing
    /\ current_iteration >= 2
    /\ max_error # Inf

\* C7: approx_relative_error is positive infinity for a current estimate of
\* 0, so no solver returns through its tolerance test in an iteration whose
\* current estimate is exactly 0, for any max_error.
C7_ZeroNotConverged ==
    /\ \A p \in {x_p, x_c, x_0, x_1, x_a, x_b} : approx_relative_error(p, 0) = Inf
    /\ (pc = "returned" /\ path = "tolerance") => result # 0
    /\ (pc = "returned" /\ Bracketing /\ x_c = 0) => path = "exact"
    /\ (pc = "returned" /\ method = "secant_method" /\ x_1 = 0) => path = "exact"

C7_Witness ==
    /\ pc = "loop" /\ current_iteration >= 1
    /\ max_error = Inf
    /\ IF Bracketing THEN x_c = 0 ELSE x_1 = 0

\* C8: for every value r that secant_method returns, secant_method with r as
\* both guesses returns r in its first loop iteration, without computing the
\* secant update and without a division fault.
C8_SecantIdempotent ==
    (method = "secant_method" /\ prior # NoPrior) =>
        /\ x_lower = prior.result /\ x_upper = prior.result
        /\ current_iteration = 0
        /\ pc \in {"start", "loop", "returned"}
        /\ pc = "returned" => result = prior.result
        /\ pc = "loop" => x_0 = prior.result /\ x_1 = prior.result

C8_Witness ==
    /\ method = "secant_method" /\ prior # NoPrior
    /\ prior.path = "tolerance"
    /\ pc = "returned" /\ path = "tolerance"
    /\ ~Eq(solve_func(result), 0)

FalsePositionAfterBisection ==
    /\ method = "false_position_method"
    /\ prior.method = "bisection_method"
    /\ pc \in Terminal

SameRoot(a, b) ==
    \/ a = b
    \/ Lt(approx_relative_error(a, b), max_error)
    \/ Lt(approx_relative_error(b, a), max_error)

Le(a, b) == a # NaN /\ b # NaN /\ a <= b
InOriginalInterval(v) == Le(Lower, v) /\ Le(v, Upper)
BracketUpdate ==
    (BisectionIterate \/ FalsePositionIterate) /\ x_c' # x_c /\ path' # "exact"

\* C10: after the entry check every estimate x_c and every returned value of
\* the bracketing solvers lies in the closed original interval, x_a <= x_b
\* holds after every bracket update, and each update of bisection_method
\* halves the width x_b - x_a exactly.
C10_Step ==
    /\ (BisectionIterate \/ FalsePositionIterate) =>
          /\ x_c' # x_c => InOriginalInterval(x_c')
          /\ pc' = "returned" => InOriginalInterval(result')
    /\ BracketUpdate => Le(x_a', x_b')
    /\ (BracketUpdate /\ BisectionIterate) => 2 * (x_b' - x_a') = x_b - x_a
C10_BracketContained == [][C10_Step]_vars

\* C10 (amended): in bisection_method, as long as x_a + x_b does not
\* overflow, every estimate x_c and every returned value lies in the closed
\* original interval, x_a <= x_b holds after every update, no update widens
\* the bracket, and an update halves the width exactly when x_c is the exact
\* midpoint of the bracket.
C10_BisectionStep ==
    (BisectionIterate /\ IsFinite(x_c')) =>
        /\ InOriginalInterval(x_c')
        /\ pc' = "returned" => result' = x_c'
        /\ Le(x_a', x_b')
        /\ Le(Lower, x_a') /\ Le(x_b', Upper)
        /\ x_b' - x_a' <= x_b - x_a
        /\ (path' # "exact" /\ 2 * x_c' = x_a + x_b) => 2 * (x_b' - x_a') = x_b - x_a
C10_BisectionContained == [][C10_BisectionStep]_vars

C10_Witness ==
    /\ method = "bisection_method" /\ pc = "loop"
    /\ current_iteration >= 2
    /\ IsFinite(x_c)
    /\ x_a = x_c
    /\ 2 * (x_b - x_a) # x_b - x_p
====
